---- MODULE Spec2Model ----
(***************************************************************************)
(* GasGuardian recruitment userbot (src/db.ts): the candidate pipeline     *)
(* (discovery -> candidatesToJoin -> processCandidateQueue with            *)
(* candidateRetrySet / candidateFailCounts), the engagement state          *)
(* (join:<g>, leftGroups, repliedGroups:<day>) and the group branch of     *)
(* handleMessage, as state machines over the shared store.  Every await of *)
(* the code that touches shared state or has several outcomes is one step. *)
(* Times are milliseconds, as Date.now().                                  *)
(***************************************************************************)
EXTENDS Integers, Sequences, FiniteSets, TLC

\* ------------------------------------------------------------ universe
\* Candidate handles, in the lexicographic order the sorted set breaks ties.
HandleSeq == <<"alpha", "beta">>
Handles == {HandleSeq[k] : k \in 1..Len(HandleSeq)}
NoHandle == "none"
Rank(h) == CHOOSE k \in 1..Len(HandleSeq) : HandleSeq[k] = h

\* Channel ids; both handles resolve to channel 1 (a channel and its alias).
Groups == {1, 2}
ChannelOf(h) == 1

\* ------------------------------------------------------------ bounds
\* The clock advances MaxTicks times.
MaxTicks == 2
\* Times the processing job fires.
MaxProcessRuns == 2
\* Times the discovery job fires beside the processing job, and on its own.
ScrapeRunsBeside == 1
MaxScrapeRuns == 2
\* Inbound group messages.
MaxMessages == 3
\* scenarioD counts a handle's attempts up to ScenarioCap.
ScenarioCap == 3
\* Calls of scheduleCandidateRetry per handle in SpecRetry.
MaxFails == 11
\* Times more than the fallback cooldown passes at once.
MaxHours == 1
\* Steps of the clock of the DM funnel.
MaxDmTicks == 4
\* Characters of a text and texts of a history given to the relevance functions.
MaxTextLen == 3
MaxTexts == 2
\* The largest number of attempts given to fetchWithRetry.
MaxAttempts == 4
\* Messages the lightweight DM handler receives.
MaxLightMessages == 4
\* Runs of discoverChannels.
MaxDiscoverRuns == 2

\* ------------------------------------------------------------ program constants
maxRetryDelay == 3600
maxJoinPerRun == 30
maxScrapePerRun == 100
GROUP_JOIN_WAIT_MIN == 3
DM_REMINDER_MIN == 30
DefaultBaseDelay == 10
MinActivity == 5
FloodGrace == 5
DefaultFloodWait == 30
JitterMinMs == 1500
JitterMaxMs == 2500
HourMs == 60 * 60 * 1000
DayMs == 24 * HourMs
\* One step of the clock: twice the default retry base, in ms.
TickMs == 2 * DefaultBaseDelay * 1000
\* FLOOD_WAIT_<n> values the platform sends.
FloodWaits == {DefaultFloodWait}

Min(a, b) == IF a <= b THEN a ELSE b

RECURSIVE Pow2(_)
Pow2(n) == IF n <= 0 THEN 1 ELSE 2 * Pow2(n - 1)

VARIABLES
  redis,                \* TRUE when REDIS_URL is set (const redis != null)
  script,               \* TRUE when the collaborators behave as in Scenario D
  tableMissing,         \* the channelSearch table does not exist (P2021)
  now,                  \* Date.now()
  candidatesToJoin,     \* the main queue (a list)
  candidateRetrySet,    \* sorted set: handle -> score (due time), -1 absent
  candidateFailCounts,  \* hash: handle -> count, 0 absent
  leftGroups,           \* set of channel ids
  joinKeys,             \* join:<g> -> time the key expires, 0 absent
  repliedGroups,        \* {<<day, g>>}: members of repliedGroups:<day>
  groupReplyTimestamps, \* in-memory fallback: g -> time of last reply, 0 absent
  joinTimestamps,       \* in-memory fallback: g -> time of the join, 0 absent
  channelSearch,        \* usernames logged by logChannelSearch
  member,               \* channels the account is a participant of
  proc,                 \* processCandidateQueue runs
  disc,                 \* scrapeAndEnqueueCandidates runs
  hand,                 \* handleMessage invocations
  replyLog,             \* g -> [day, count]: replies sent into g on the day of the last one
  retryLog,             \* h -> the scheduleCandidateRetry calls since the last clear
  budget,               \* how often each job and the message event may still fire
  scenarioD,            \* h -> attempts completed under Scenario D's collaborators
  pendingReminder,      \* pendingReminder:<u> -> time the key expires, 0 absent
  pendingUGC,           \* pendingUGC:<u> -> time the key expires, 0 absent
  converted,            \* converted:<u> -> time the key expires, 0 absent
  timers,               \* the setTimeout callbacks of the DM funnel, pending or running
  dm,                   \* handleMessage invocations in the DM funnel
  dmLog,                \* u -> what the user sent and was sent
  processed_channels,   \* the Redis set processed_channels
  pending_channels,     \* the Redis set pending_channels
  discover,             \* the discoverChannels run: keywords, those searched, handles returned
  cachedKeywords,       \* keyword-helper: the cached dynamic keywords (a list)
  lastFetched,          \* keyword-helper: Date.now() of the last fetch that succeeded
  keywordLog,           \* the last getDynamicKeywords call, and when a fetch last succeeded
  userStates,           \* keyword-helper: u -> 'invited', 'cta_sent' or undefined
  sentLog,              \* u -> how often the lightweight handler sent each of its texts
  retry,                \* the fetchWithRetry call, with the outcomes of fn so far
  relevance             \* the relevance check of the processor on a fetched history

vars == <<redis, script, tableMissing, now, candidatesToJoin, candidateRetrySet,
          candidateFailCounts, leftGroups, joinKeys, repliedGroups,
          groupReplyTimestamps, joinTimestamps, channelSearch, member,
          proc, disc, hand, replyLog, retryLog, budget, scenarioD,
          pendingReminder, pendingUGC, converted, timers, dm, dmLog,
          processed_channels, pending_channels, discover, cachedKeywords,
          lastFetched, keywordLog, userStates, sentLog, retry, relevance>>

\* What the pipeline and the funnel only read, and the state of the helper
\* modules they never touch.
cfgVars == <<redis, script, tableMissing, processed_channels, pending_channels,
             discover, cachedKeywords, lastFetched, keywordLog, userStates,
             sentLog, retry, relevance>>
queueVars == <<candidatesToJoin, candidateRetrySet, candidateFailCounts>>
groupVars == <<leftGroups, joinKeys, joinTimestamps, member>>
replyVars == <<repliedGroups, groupReplyTimestamps, replyLog>>
ghostVars == <<retryLog, budget, scenarioD>>
dmVars == <<pendingReminder, pendingUGC, converted, timers, dm, dmLog>>

\* ------------------------------------------------------------ time
\* The clock starts two ticks before midnight UTC, so that a run crosses a day.
StartTime == DayMs - 2 * TickMs
EndTime == StartTime + MaxTicks * TickMs
\* new Date().toISOString().slice(0, 10): the calendar-day bucket of a time.
Day(t) == t \div DayMs

\* ------------------------------------------------------------ store primitives
\* zrangebyscore(key, 0, t): the members whose score is in [0, t].
ZRangeByScore(zset, t) == {h \in DOMAIN zset : zset[h] >= 0 /\ zset[h] <= t}

\* A variant that returns the due member of highest score.
ZLast(zset, t) ==
  LET S == ZRangeByScore(zset, t)
  IN  IF S = {} THEN NoHandle
      ELSE CHOOSE h \in S : \A k \in S :
             \/ zset[h] > zset[k]
             \/ zset[h] = zset[k] /\ Rank(h) >= Rank(k)

\* ... LIMIT 0 1: the member of lowest score, ties in lexicographic order.
ZFirst(zset, t) ==
  LET S == ZRangeByScore(zset, t)
  IN  IF S = {} THEN NoHandle
      ELSE CHOOSE h \in S : \A k \in S :
             \/ zset[h] < zset[k]
             \/ zset[h] = zset[k] /\ Rank(h) <= Rank(k)

ZAdd(zset, h, score) == [zset EXCEPT ![h] = score]
ZRem(zset, h) == [zset EXCEPT ![h] = -1]
\* A variant that counts in twos.
HIncrByTwo(hash, h) == [hash EXCEPT ![h] = @ + 2]

HIncrBy(hash, h) == [hash EXCEPT ![h] = @ + 1]
HDel(hash, h) == [hash EXCEPT ![h] = 0]
Includes(list, x) == \E k \in 1..Len(list) : list[k] = x

\* ------------------------------------------------------------ engagement state
canReplyGroup(g) ==
  IF redis THEN <<Day(now), g>> \notin repliedGroups
  ELSE groupReplyTimestamps[g] = 0 \/ now - groupReplyTimestamps[g] > HourMs

\* recordGroupReply: sadd (the 25 h expiry of a day's key falls after that day).
RepliedAfterRecord(g) ==
  IF redis THEN repliedGroups \cup {<<Day(now), g>>} ELSE repliedGroups

TimestampsAfterRecord(g) ==
  IF redis THEN groupReplyTimestamps
  ELSE [groupReplyTimestamps EXCEPT ![g] = now]

recentlyJoinedGroup(g) ==
  IF redis THEN joinKeys[g] > now
  ELSE joinTimestamps[g] # 0 /\ now - joinTimestamps[g] < GROUP_JOIN_WAIT_MIN * 60 * 1000

\* recordJoinGroup: set join:<g> EX 180, or the in-memory timestamp.
JoinKeysAfterRecord(g) ==
  IF redis THEN [joinKeys EXCEPT ![g] = now + GROUP_JOIN_WAIT_MIN * 60 * 1000]
  ELSE joinKeys

JoinTimestampsAfterRecord(g) ==
  IF redis THEN joinTimestamps ELSE [joinTimestamps EXCEPT ![g] = now]

\* A variant that never consults the leftGroups set.
hasLeftNever(g) == FALSE

hasLeftGroup(g) == redis /\ g \in leftGroups

recordLeftGroup(g) == IF redis THEN leftGroups \cup {g} ELSE leftGroups

\* clearCandidateFailures: hdel of the failure count only.
clearCandidateFailures(h) ==
  IF redis THEN HDel(candidateFailCounts, h) ELSE candidateFailCounts

\* A variant without the cap.
RetryDelayUncapped(base, count) == base * Pow2(count - 1)

\* The delay scheduleCandidateRetry computes from the incremented count.
RetryDelay(base, count) == Min(maxRetryDelay, base * Pow2(count - 1))

\* A sent reply, counted per group and day.
ReplyLogAfterSend(g) ==
  [replyLog EXCEPT ![g] =
     IF @.day = Day(now) THEN [day |-> @.day, count |-> @.count + 1]
     ELSE [day |-> Day(now), count |-> 1]]

\* The calls of scheduleCandidateRetry for h since the last clear: how many,
\* their common base (-1 when they differ), the last call's time and delay,
\* and the delay of the call before.
NoRetryLog == [n |-> 0, base |-> 0, at |-> 0, delay |-> 0, prev |-> 0]

RetryLogAfterZadd(h, base, delay) ==
  [retryLog EXCEPT ![h] =
     [n |-> @.n + 1,
      base |-> IF @.n = 0 \/ @.base = base THEN base ELSE -1,
      at |-> now, delay |-> delay, prev |-> @.delay]]

RetryLogAfterClear(h) == [retryLog EXCEPT ![h] = NoRetryLog]

\* ------------------------------------------------------------ fetched history
\* A text is a sequence of characters; a fetched message is a text or NoText
\* (media only).
NoText == <<"<media>">>
Chatter(n) == [k \in 1..n |-> <<"g", "m">>]
Histories ==
  LET gasFees == <<"G", "A", "S", " ", "f", "e", "e", "s", "?">> IN
  { <<>>,
    <<<<"g", "m">>, NoText, gasFees, NoText, <<"g", "m">>>>,
    Chatter(MinActivity),
    Append(Chatter(MinActivity - 1), gasFees) }

\* text.toLowerCase().includes(kw.toLowerCase()) for some kw of
\* RELEVANT_KEYWORDS: "gas", "eth", "fee" and "l2" stand for the 31 of them.
MentionsKeyword(text) ==
  LET upper == [G |-> "g", A |-> "a", S |-> "s", E |-> "e", T |-> "t",
                H |-> "h", F |-> "f", L |-> "l"]
      toLowerCase(s) ==
        [k \in DOMAIN s |-> IF s[k] \in DOMAIN upper THEN upper[s[k]] ELSE s[k]]
  IN  \E kw \in {<<"g", "a", "s">>, <<"e", "t", "h">>, <<"f", "e", "e">>, <<"l", "2">>} :
        \E at \in 0..(Len(text) - Len(kw)) :
          \A j \in 1..Len(kw) : toLowerCase(text)[at + j] = toLowerCase(kw)[j]

\* fetchRecentMessages keeps the messages that have text.
TextsOf(history) == SelectSeq(history, LAMBDA m : m # NoText)
containsRelevantKeyword(texts) == \E k \in 1..Len(texts) : MentionsKeyword(texts[k])

\* A scan from the end instead: the last text that mentions a keyword, or null.
pickLastRelevantMessage(messages) ==
  IF ~containsRelevantKeyword(messages) THEN <<"null">>
  ELSE messages[CHOOSE k \in 1..Len(messages) :
         /\ MentionsKeyword(messages[k])
         /\ \A j \in (k + 1)..Len(messages) : ~MentionsKeyword(messages[j])]

\* The scan of pickMostRelevantMessage: the first text that mentions a keyword,
\* or null.
RECURSIVE pickMostRelevantMessage(_)
pickMostRelevantMessage(messages) ==
  IF messages = <<>> THEN <<"null">>
  ELSE IF MentionsKeyword(Head(messages)) THEN Head(messages)
  ELSE pickMostRelevantMessage(Tail(messages))

\* ------------------------------------------------------------ collaborators
\* What the collaborators of a run may answer.  Under Scenario D (script)
\* every note to Saved Messages, resolution, join and leave succeeds, the
\* history is active and relevant, and the AI returns the empty string.
NoteResults == IF script THEN {"ok"} ELSE {"ok", "throw"}
ResolveResults == IF script THEN {"channel"} ELSE {"channel", "null"}
ThrowKinds == {"FLOOD_WAIT", "OTHER"}
JoinResults(g) ==
  IF script THEN {"ok"}
  ELSE {"ok"} \cup ThrowKinds \cup (IF g \in member THEN {"ALREADY"} ELSE {})
LeaveResults == IF script THEN {"ok"} ELSE {"ok"} \cup ThrowKinds
FetchResults ==
  IF script
  THEN {h \in Histories : TextsOf(h) = h /\ Len(h) = MinActivity /\ containsRelevantKeyword(h)}
  ELSE Histories
AIResults == IF script THEN {""} ELSE {"", "gm fren"}
SendResults == BOOLEAN

\* ------------------------------------------------------------ processCandidateQueue
Procs == {1, 2}

\* pc: where the run is suspended.  uname, chan: the candidate and its channel
\* id.  err, wait: the error the try block threw and its FLOOD_WAIT seconds.
\* base, count: the arguments and the hincrby result of the pending
\* scheduleCandidateRetry.  after: what follows the pending store call
\* (continue, the jitter sleep, break) or how the loop was left.  reason: why
\* the candidate is being dropped or retried.  outcome: the terminal outcomes
\* the candidate has reached.
IdleProc ==
  [pc |-> "idle", i |-> 0, uname |-> NoHandle, due |-> NoHandle, chan |-> 0,
   err |-> "none", wait |-> 0, wake |-> 0, base |-> 0, count |-> 0,
   after |-> "none", reason |-> "none", outcome |-> {}]

\* A variant in which break lets the loop go on.
EndCandidateNoBreak(p, how) ==
  [p EXCEPT !.pc = CASE how \in {"continue", "break"} -> "dequeue"
                     [] how = "sleep" -> "jitter"
                     [] OTHER -> "exit",
            !.i = IF how \in {"continue", "break"} THEN @ + 1 ELSE @,
            !.due = NoHandle, !.chan = 0, !.err = "none", !.wait = 0,
            !.wake = 0, !.base = 0, !.count = 0, !.after = how]

\* The candidate's processing is over: the locals of the iteration are dead.
EndCandidate(p, how) ==
  [p EXCEPT !.pc = CASE how = "continue" -> "dequeue"
                     [] how = "sleep" -> "jitter"
                     [] OTHER -> "exit",
            !.i = IF how = "continue" THEN @ + 1 ELSE @,
            !.due = NoHandle, !.chan = 0, !.err = "none", !.wait = 0,
            !.wake = 0, !.base = 0, !.count = 0, !.after = how]

\* The states between two candidates of a run.
EndPcs == {"dequeue", "jitter", "exit"}

\* An attempt under Scenario D's collaborators is over.
ScenarioAfterEnd(h) ==
  IF script /\ scenarioD[h] < ScenarioCap
  THEN [scenarioD EXCEPT ![h] = @ + 1] ELSE scenarioD

procOnly == <<cfgVars, dmVars, now, queueVars, groupVars, replyVars, channelSearch,
              disc, hand, ghostVars>>

\* The "*/30" job fires; nothing keeps it from firing while a run is active.
P_Start(r) ==
  /\ proc[r].pc = "idle"
  /\ budget.process > 0
  /\ proc' = [proc EXCEPT ![r] = [IdleProc EXCEPT !.pc = "dequeue"]]
  /\ budget' = [budget EXCEPT !.process = @ - 1]
  /\ UNCHANGED <<cfgVars, dmVars, now, queueVars, groupVars, replyVars, channelSearch,
                 disc, hand, retryLog, scenarioD>>

\* A variant whose loop has no per-run cap.
P_DequeueReadNoCap(r) ==
  /\ proc[r].pc = "dequeue"
  /\ proc' = [proc EXCEPT ![r] =
       IF ~redis THEN IdleProc
       ELSE [@ EXCEPT !.pc = "take", !.uname = NoHandle, !.outcome = {},
                      !.reason = "none", !.after = "none",
                      !.due = ZFirst(candidateRetrySet, now)]]
  /\ UNCHANGED procOnly

\* Loop head and the first half of dequeueCandidate: zrangebyscore(0, now) LIMIT 0 1.
P_DequeueRead(r) ==
  /\ proc[r].pc = "dequeue"
  /\ proc' = [proc EXCEPT ![r] =
       IF proc[r].i >= maxJoinPerRun \/ ~redis THEN IdleProc
       ELSE [@ EXCEPT !.pc = "take", !.uname = NoHandle, !.outcome = {},
                      !.reason = "none", !.after = "none",
                      !.due = ZFirst(candidateRetrySet, now)]]
  /\ UNCHANGED procOnly

\* Second half of dequeueCandidate: zrem of the due member, else lpop.
P_DequeueTake(r) ==
  /\ proc[r].pc = "take"
  /\ IF proc[r].due # NoHandle
     THEN /\ candidateRetrySet' = ZRem(candidateRetrySet, proc[r].due)
          /\ proc' = [proc EXCEPT ![r] = [@ EXCEPT !.pc = "announce",
                                                  !.uname = proc[r].due,
                                                  !.due = NoHandle]]
          /\ UNCHANGED candidatesToJoin
     ELSE IF candidatesToJoin # <<>>
     THEN /\ candidatesToJoin' = Tail(candidatesToJoin)
          /\ proc' = [proc EXCEPT ![r] = [@ EXCEPT !.pc = "announce",
                                                  !.uname = Head(candidatesToJoin)]]
          /\ UNCHANGED candidateRetrySet
     ELSE /\ proc' = [proc EXCEPT ![r] = IdleProc]
          /\ UNCHANGED <<candidatesToJoin, candidateRetrySet>>
  /\ UNCHANGED <<cfgVars, dmVars, now, candidateFailCounts, groupVars, replyVars,
                 channelSearch, disc, hand, ghostVars>>

\* The "Processing candidate" note, outside any try: a throw ends the run.
\* After the note the handle is added to processed_channels (redis is set here:
\* without it dequeueCandidate returned null).
P_Announce(r) ==
  /\ proc[r].pc = "announce"
  /\ \E note \in NoteResults :
       IF note = "ok"
       THEN /\ proc' = [proc EXCEPT ![r] = [@ EXCEPT !.pc = "resolve"]]
            /\ processed_channels' = processed_channels \cup {proc[r].uname}
       ELSE /\ proc' = [proc EXCEPT ![r] = EndCandidate(@, "abort")]
            /\ UNCHANGED processed_channels
  /\ UNCHANGED <<redis, script, tableMissing, pending_channels, discover,
                 cachedKeywords, lastFetched, keywordLog, userStates, sentLog,
                 retry, relevance, dmVars, now, queueVars, groupVars, replyVars,
                 channelSearch, disc, hand, ghostVars>>

\* getInputChannel; on null the "resolution failed" note and scheduleCandidateRetry(uname).
P_Resolve(r) ==
  /\ proc[r].pc = "resolve"
  /\ \E res \in ResolveResults, note \in NoteResults :
       proc' = [proc EXCEPT ![r] =
         IF res = "channel"
         THEN [@ EXCEPT !.pc = "guardRecent", !.chan = ChannelOf(proc[r].uname)]
         ELSE IF note = "ok"
         THEN [@ EXCEPT !.pc = "sched", !.base = DefaultBaseDelay,
                        !.after = "continue", !.reason = "unresolved"]
         ELSE EndCandidate(@, "abort")]
  /\ UNCHANGED procOnly

P_GuardRecent(r) ==
  /\ proc[r].pc = "guardRecent"
  /\ proc' = [proc EXCEPT ![r] =
       IF recentlyJoinedGroup(proc[r].chan)
       THEN [@ EXCEPT !.pc = "skipNote", !.reason = "recent"]
       ELSE [@ EXCEPT !.pc = "guardLeft"]]
  /\ UNCHANGED procOnly

P_GuardLeft(r) ==
  /\ proc[r].pc = "guardLeft"
  /\ proc' = [proc EXCEPT ![r] =
       IF hasLeftGroup(proc[r].chan)
       THEN [@ EXCEPT !.pc = "skipNote", !.reason = "left"]
       ELSE [@ EXCEPT !.pc = "join"]]
  /\ UNCHANGED procOnly

\* The "skipped" note of either guard, outside the try.
P_SkipNote(r) ==
  /\ proc[r].pc = "skipNote"
  /\ \E note \in NoteResults :
       proc' = [proc EXCEPT ![r] =
         IF note = "ok" THEN [@ EXCEPT !.pc = "clear", !.after = "continue"]
         ELSE EndCandidate(@, "abort")]
  /\ UNCHANGED procOnly

\* Inside the try: the "Attempting to join" note, JoinChannel, recordJoinGroup.
P_Join(r) ==
  /\ proc[r].pc = "join"
  /\ LET g == proc[r].chan IN
     \E note \in NoteResults, res \in JoinResults(g), w \in FloodWaits :
       IF note = "ok" /\ res = "ok"
       THEN /\ member' = member \cup {g}
            /\ joinKeys' = JoinKeysAfterRecord(g)
            /\ joinTimestamps' = JoinTimestampsAfterRecord(g)
            /\ proc' = [proc EXCEPT ![r] = [@ EXCEPT !.pc = "fetch"]]
       ELSE /\ proc' = [proc EXCEPT ![r] =
                 [@ EXCEPT !.pc = "catch",
                           !.err = IF note = "ok" THEN res ELSE "OTHER",
                           !.wait = IF note = "ok" /\ res = "FLOOD_WAIT"
                                    THEN w ELSE 0]]
            /\ UNCHANGED <<member, joinKeys, joinTimestamps>>
  /\ UNCHANGED <<cfgVars, dmVars, now, queueVars, leftGroups, replyVars, channelSearch,
                 disc, hand, ghostVars>>

\* fetchRecentMessages, the activity check and the relevance check.
P_Fetch(r) ==
  /\ proc[r].pc = "fetch"
  /\ \E history \in FetchResults :
       LET recentTexts == TextsOf(history) IN
       proc' = [proc EXCEPT ![r] =
         IF Len(recentTexts) < MinActivity
         THEN [@ EXCEPT !.pc = "leave", !.reason = "lowActivity"]
         ELSE IF ~containsRelevantKeyword(recentTexts)
         THEN [@ EXCEPT !.pc = "leave", !.reason = "irrelevant"]
         ELSE [@ EXCEPT !.pc = "generate"]]
  /\ UNCHANGED procOnly

\* generateAIReply: a text, or "" when the model gave none or the call threw.
P_Generate(r) ==
  /\ proc[r].pc = "generate"
  /\ \E aiReply \in AIResults :
       proc' = [proc EXCEPT ![r] =
         IF aiReply = "" THEN [@ EXCEPT !.pc = "leave", !.reason = "aiFailed"]
         ELSE [@ EXCEPT !.pc = "send"]]
  /\ UNCHANGED procOnly

\* safeSendMessage of the reply into the channel.
P_Send(r) ==
  /\ proc[r].pc = "send"
  /\ \E sent \in SendResults :
       IF sent
       THEN /\ replyLog' = ReplyLogAfterSend(proc[r].chan)
            /\ proc' = [proc EXCEPT ![r] =
                 [@ EXCEPT !.pc = "posted", !.outcome = @ \cup {"Done"}]]
       ELSE /\ proc' = [proc EXCEPT ![r] =
                 [@ EXCEPT !.pc = "leave", !.reason = "sendFailed"]]
            /\ UNCHANGED replyLog
  /\ UNCHANGED <<cfgVars, dmVars, now, queueVars, groupVars, repliedGroups,
                 groupReplyTimestamps, channelSearch, disc, hand, ghostVars>>

\* The "Joined and posted" note, inside the try.
P_Posted(r) ==
  /\ proc[r].pc = "posted"
  /\ \E note \in NoteResults :
       proc' = [proc EXCEPT ![r] =
         IF note = "ok"
         THEN [@ EXCEPT !.pc = "clear", !.after = "sleep", !.reason = "posted"]
         ELSE [@ EXCEPT !.pc = "catch", !.err = "OTHER"]]
  /\ UNCHANGED procOnly

\* LeaveChannel, inside the try.
P_Leave(r) ==
  /\ proc[r].pc = "leave"
  /\ \E res \in LeaveResults, w \in FloodWaits :
       IF res = "ok"
       THEN /\ member' = member \ {proc[r].chan}
            /\ proc' = [proc EXCEPT ![r] = [@ EXCEPT !.pc = "recordLeft"]]
       ELSE /\ proc' = [proc EXCEPT ![r] =
                 [@ EXCEPT !.pc = "catch", !.err = res,
                           !.wait = IF res = "FLOOD_WAIT" THEN w ELSE 0]]
            /\ UNCHANGED member
  /\ UNCHANGED <<cfgVars, dmVars, now, queueVars, leftGroups, joinKeys, joinTimestamps,
                 replyVars, channelSearch, disc, hand, ghostVars>>

\* recordLeftGroup and the "left" note, inside the try; then the tail call.
P_RecordLeft(r) ==
  /\ proc[r].pc = "recordLeft"
  /\ leftGroups' = recordLeftGroup(proc[r].chan)
  /\ \E note \in NoteResults :
       proc' = [proc EXCEPT ![r] =
         IF note = "throw" THEN [@ EXCEPT !.pc = "catch", !.err = "OTHER"]
         ELSE IF proc[r].reason \in {"lowActivity", "irrelevant"}
         THEN [@ EXCEPT !.pc = "clear", !.after = "continue"]
         ELSE [@ EXCEPT !.pc = "sched", !.base = DefaultBaseDelay,
                        !.after = "continue"]]
  /\ UNCHANGED <<cfgVars, dmVars, now, queueVars, joinKeys, joinTimestamps, member,
                 replyVars, channelSearch, disc, hand, ghostVars>>

\* clearCandidateFailures(uname), then continue or the jitter sleep.
P_Clear(r) ==
  /\ proc[r].pc = "clear"
  /\ candidateFailCounts' = clearCandidateFailures(proc[r].uname)
  /\ proc' = [proc EXCEPT ![r] =
       EndCandidate([@ EXCEPT !.outcome =
                       IF proc[r].reason = "posted" THEN @
                       ELSE @ \cup {"SkipNoRetry"}],
                    proc[r].after)]
  /\ retryLog' = IF redis THEN RetryLogAfterClear(proc[r].uname) ELSE retryLog
  /\ scenarioD' = ScenarioAfterEnd(proc[r].uname)
  /\ UNCHANGED <<cfgVars, dmVars, now, candidatesToJoin, candidateRetrySet, groupVars,
                 replyVars, channelSearch, disc, hand, budget>>

\* A variant without the USER_ALREADY_PARTICIPANT branch.
P_CatchAlreadyRetries(r) ==
  /\ proc[r].pc = "catch"
  /\ \E note \in NoteResults :
       IF proc[r].err = "FLOOD_WAIT"
       THEN /\ proc' = [proc EXCEPT ![r] =
                 [@ EXCEPT !.pc = "floodSleep",
                           !.wake = now + (proc[r].wait + FloodGrace) * 1000]]
            /\ UNCHANGED leftGroups
       ELSE IF note = "ok"
       THEN /\ leftGroups' = recordLeftGroup(proc[r].chan)
            /\ proc' = [proc EXCEPT ![r] =
                 [@ EXCEPT !.pc = "sched", !.base = DefaultBaseDelay,
                           !.after = "sleep"]]
       ELSE /\ proc' = [proc EXCEPT ![r] = EndCandidate(@, "abort")]
            /\ UNCHANGED leftGroups
  /\ UNCHANGED <<cfgVars, dmVars, now, queueVars, joinKeys, joinTimestamps, member,
                 replyVars, channelSearch, disc, hand, ghostVars>>

\* The catch block up to its first await.
P_Catch(r) ==
  /\ proc[r].pc = "catch"
  /\ \E note \in NoteResults :
       CASE proc[r].err = "ALREADY" ->
              /\ proc' = [proc EXCEPT ![r] =
                   EndCandidate([@ EXCEPT !.outcome = @ \cup {"SkipNoRetry"},
                                          !.reason = "participant"],
                                "continue")]
              /\ UNCHANGED leftGroups
         [] proc[r].err = "FLOOD_WAIT" ->
              /\ proc' = [proc EXCEPT ![r] =
                   [@ EXCEPT !.pc = "floodSleep",
                             !.wake = now + (proc[r].wait + FloodGrace) * 1000]]
              /\ UNCHANGED leftGroups
         [] OTHER ->
              IF note = "ok"
              THEN /\ leftGroups' = recordLeftGroup(proc[r].chan)
                   /\ proc' = [proc EXCEPT ![r] =
                        [@ EXCEPT !.pc = "sched", !.base = DefaultBaseDelay,
                                  !.after = "sleep"]]
              ELSE /\ proc' = [proc EXCEPT ![r] = EndCandidate(@, "abort")]
                   /\ UNCHANGED leftGroups
  /\ UNCHANGED <<cfgVars, dmVars, now, queueVars, joinKeys, joinTimestamps, member,
                 replyVars, channelSearch, disc, hand, ghostVars>>

\* The flood sleep is over: scheduleCandidateRetry(uname, waitSeconds), then break.
P_FloodWake(r) ==
  /\ proc[r].pc = "floodSleep"
  /\ now >= proc[r].wake
  /\ proc' = [proc EXCEPT ![r] =
       [@ EXCEPT !.pc = "sched", !.base = proc[r].wait, !.after = "break"]]
  /\ UNCHANGED procOnly

\* scheduleCandidateRetry, first await: hincrby.
P_Sched(r) ==
  /\ proc[r].pc = "sched"
  /\ candidateFailCounts' =
       IF redis THEN HIncrBy(candidateFailCounts, proc[r].uname)
       ELSE candidateFailCounts
  /\ proc' = [proc EXCEPT ![r] =
       [@ EXCEPT !.pc = "zadd",
                 !.count = candidateFailCounts'[proc[r].uname]]]
  /\ UNCHANGED <<cfgVars, dmVars, now, candidatesToJoin, candidateRetrySet, groupVars,
                 replyVars, channelSearch, disc, hand, ghostVars>>

\* scheduleCandidateRetry, second await: zadd at Date.now() + delay * 1000.
P_Zadd(r) ==
  /\ proc[r].pc = "zadd"
  /\ candidateRetrySet' =
       IF redis
       THEN ZAdd(candidateRetrySet, proc[r].uname,
                 now + RetryDelay(proc[r].base, proc[r].count) * 1000)
       ELSE candidateRetrySet
  /\ proc' = [proc EXCEPT ![r] =
       EndCandidate([@ EXCEPT !.outcome =
                       IF redis THEN @ \cup {"Retry"} ELSE @],
                    proc[r].after)]
  /\ retryLog' =
       IF redis
       THEN RetryLogAfterZadd(proc[r].uname, proc[r].base,
                              RetryDelay(proc[r].base, proc[r].count))
       ELSE retryLog
  /\ scenarioD' = ScenarioAfterEnd(proc[r].uname)
  /\ UNCHANGED <<cfgVars, dmVars, now, candidatesToJoin, candidateFailCounts, groupVars,
                 replyVars, channelSearch, disc, hand, budget>>

\* sleep(1500, 2500) at the bottom of the loop body.
P_Jitter(r) ==
  /\ proc[r].pc = "jitter"
  /\ \E d \in {JitterMinMs, JitterMaxMs} :
       proc' = [proc EXCEPT ![r] =
         [@ EXCEPT !.pc = "wake", !.wake = now + d, !.uname = NoHandle,
                   !.outcome = {}, !.reason = "none", !.after = "none"]]
  /\ UNCHANGED procOnly

P_Wake(r) ==
  /\ proc[r].pc = "wake"
  /\ now >= proc[r].wake
  /\ proc' = [proc EXCEPT ![r] = [@ EXCEPT !.pc = "dequeue", !.i = @ + 1,
                                          !.wake = 0]]
  /\ UNCHANGED procOnly

\* The loop was left by break or by an uncaught throw: the run is over.
P_Exit(r) ==
  /\ proc[r].pc = "exit"
  /\ proc' = [proc EXCEPT ![r] = IdleProc]
  /\ UNCHANGED procOnly

ProcStep(r) ==
  \/ P_Start(r) \/ P_DequeueRead(r) \/ P_DequeueTake(r) \/ P_Announce(r)
  \/ P_Resolve(r) \/ P_GuardRecent(r) \/ P_GuardLeft(r) \/ P_SkipNote(r)
  \/ P_Join(r) \/ P_Fetch(r) \/ P_Generate(r) \/ P_Send(r) \/ P_Posted(r)
  \/ P_Leave(r) \/ P_RecordLeft(r) \/ P_Clear(r) \/ P_Catch(r)
  \/ P_FloodWake(r) \/ P_Sched(r) \/ P_Zadd(r) \/ P_Jitter(r) \/ P_Wake(r)
  \/ P_Exit(r)

\* ------------------------------------------------------------ scrapeAndEnqueueCandidates
Discs == {1, 2}
Undefined == <<"undefined">>

\* scraped: the result of scrapePublicSources; k: the position of the for-of
\* loop; added: added.length; queueContents: the lrange snapshot.
IdleDisc ==
  [pc |-> "idle", scraped |-> <<>>, k |-> 0, added |-> 0, uname |-> NoHandle,
   queueContents |-> Undefined]

\* The orders in which a Set of usernames may be iterated.
RECURSIVE ListsOf(_)
ListsOf(S) ==
  IF S = {} THEN {<<>>}
  ELSE UNION {{<<x>> \o l : l \in ListsOf(S \ {x})} : x \in S}

\* prisma.channelSearch.findUnique, false when the table is missing.
channelAlreadySearched(h) == ~tableMissing /\ h \in channelSearch

discOnly == <<cfgVars, dmVars, now, queueVars, groupVars, replyVars, channelSearch,
              proc, hand, ghostVars>>

\* The "*/5" job fires and scrapePublicSources runs: the usernames found that
\* were not searched before are logged, and those with enough views returned.
D_Start(d) ==
  /\ disc[d].pc = "idle"
  /\ budget.scrape > 0
  /\ budget' = [budget EXCEPT !.scrape = @ - 1]
  /\ \E note \in NoteResults, usernamesSet \in SUBSET Handles :
       LET fresh == {h \in usernamesSet : ~channelAlreadySearched(h)} IN
       IF note = "throw"
       THEN /\ disc' = [disc EXCEPT ![d] = IdleDisc]
            /\ UNCHANGED channelSearch
       ELSE /\ channelSearch' =
                 IF tableMissing THEN channelSearch ELSE channelSearch \cup fresh
            /\ \E popular \in SUBSET fresh : \E finalCandidates \in ListsOf(popular) :
                 disc' = [disc EXCEPT ![d] =
                   [IdleDisc EXCEPT !.pc = "check", !.scraped = finalCandidates,
                                    !.k = 1]]
  /\ UNCHANGED <<cfgVars, dmVars, now, queueVars, groupVars, replyVars, proc, hand,
                 retryLog, scenarioD>>

\* Loop head, blacklist and health checks with their notes, then lrange.
D_Check(d) ==
  /\ disc[d].pc = "check"
  /\ IF disc[d].k > Len(disc[d].scraped)
     THEN disc' = [disc EXCEPT ![d] = IdleDisc]
     ELSE \E verdict \in {"blacklisted", "unhealthy", "ok"}, note \in NoteResults :
            disc' = [disc EXCEPT ![d] =
              IF verdict = "ok"
              THEN [@ EXCEPT !.pc = "push", !.uname = disc[d].scraped[disc[d].k],
                             !.queueContents =
                               IF redis THEN candidatesToJoin ELSE Undefined]
              ELSE IF note = "ok" THEN [@ EXCEPT !.k = @ + 1]
              ELSE IdleDisc]
  /\ UNCHANGED discOnly

\* A variant that pushes whenever the store answers.
EnqueuesAlways(queueContents, uname) == queueContents # Undefined

\* "Only enqueue if not already in Redis queue".
Enqueues(queueContents, uname) ==
  queueContents # Undefined /\ ~Includes(queueContents, uname)

\* rpush and the per-run cap, or on to the "already queued" note.
D_Push(d) ==
  /\ disc[d].pc = "push"
  /\ IF Enqueues(disc[d].queueContents, disc[d].uname)
     THEN /\ candidatesToJoin' = Append(candidatesToJoin, disc[d].uname)
          /\ disc' = [disc EXCEPT ![d] =
               IF disc[d].added + 1 >= maxScrapePerRun THEN IdleDisc
               ELSE [@ EXCEPT !.pc = "check", !.k = @ + 1, !.added = @ + 1,
                              !.uname = NoHandle, !.queueContents = Undefined]]
     ELSE /\ disc' = [disc EXCEPT ![d] =
               IF disc[d].queueContents # Undefined
               THEN [@ EXCEPT !.pc = "alreadyQueued", !.queueContents = Undefined]
               ELSE [@ EXCEPT !.pc = "check", !.k = @ + 1, !.uname = NoHandle]]
          /\ UNCHANGED candidatesToJoin
  /\ UNCHANGED <<cfgVars, dmVars, now, candidateRetrySet, candidateFailCounts, groupVars,
                 replyVars, channelSearch, proc, hand, ghostVars>>

\* The "already in queue" note.
D_AlreadyQueued(d) ==
  /\ disc[d].pc = "alreadyQueued"
  /\ \E note \in NoteResults :
       disc' = [disc EXCEPT ![d] =
         IF note = "ok" THEN [@ EXCEPT !.pc = "check", !.k = @ + 1, !.uname = NoHandle]
         ELSE IdleDisc]
  /\ UNCHANGED discOnly

DiscStep(d) == D_Start(d) \/ D_Check(d) \/ D_Push(d) \/ D_AlreadyQueued(d)

\* ------------------------------------------------------------ time passes
Tick ==
  /\ now < EndTime
  /\ now' = now + TickMs
  /\ UNCHANGED <<cfgVars, dmVars, queueVars, groupVars, replyVars, channelSearch,
                 proc, disc, hand, ghostVars>>

\* ------------------------------------------------------------ handleMessage (group branch)
Hands == {1, 2}
\* sensitive: the text of the handler's message has a sensitive word.
IdleHand == [pc |-> "idle", groupId |-> 0, kind |-> "none", sensitive |-> FALSE]

\* A variant without the sensitive-word gate.
PassesGateAlways(sensitive) == TRUE

\* handleMessage goes on only for a text SENSITIVE_REGEX does not match.
PassesGate(sensitive) == ~sensitive

\* What the chat completion gives: a reply, nothing (with or without a CTA
\* trigger word in the user's text), or an error.
IntentResults == {"reply", "emptyCta", "emptySilent", "throw"}

handOnly == <<cfgVars, dmVars, now, queueVars, groupVars, replyVars, channelSearch,
              proc, disc, ghostVars>>

\* An inbound text in group g that is not ours; with a sensitive word the
\* handler returns at once.
H_Start(m) ==
  /\ hand[m].pc = "idle"
  /\ budget.msgs > 0
  /\ budget' = [budget EXCEPT !.msgs = @ - 1]
  /\ \E g \in Groups, sensitive \in BOOLEAN :
       hand' = [hand EXCEPT ![m] =
         IF PassesGate(sensitive)
         THEN [IdleHand EXCEPT !.pc = "canReply", !.groupId = g,
                               !.sensitive = sensitive]
         ELSE [IdleHand EXCEPT !.sensitive = TRUE]]
  /\ UNCHANGED <<cfgVars, dmVars, now, queueVars, groupVars, replyVars, channelSearch,
                 proc, disc, retryLog, scenarioD>>

H_CanReply(m) ==
  /\ hand[m].pc = "canReply"
  /\ hand' = [hand EXCEPT ![m] =
       IF canReplyGroup(hand[m].groupId) THEN [@ EXCEPT !.pc = "recent"]
       ELSE IdleHand]
  /\ UNCHANGED handOnly

H_Recent(m) ==
  /\ hand[m].pc = "recent"
  /\ hand' = [hand EXCEPT ![m] =
       IF recentlyJoinedGroup(hand[m].groupId) THEN IdleHand
       ELSE [@ EXCEPT !.pc = "left"]]
  /\ UNCHANGED handOnly

H_Left(m) ==
  /\ hand[m].pc = "left"
  /\ hand' = [hand EXCEPT ![m] =
       IF hasLeftGroup(hand[m].groupId) THEN IdleHand
       ELSE [@ EXCEPT !.pc = "intent"]]
  /\ UNCHANGED handOnly

\* The chat completion returns (or throws) and getInputEntity resolves.
H_Intent(m) ==
  /\ hand[m].pc = "intent"
  /\ \E res \in IntentResults :
       hand' = [hand EXCEPT ![m] =
         CASE res = "reply" -> [@ EXCEPT !.pc = "send", !.kind = "ai"]
           [] res = "emptyCta" -> [@ EXCEPT !.pc = "send", !.kind = "cta"]
           [] OTHER -> IdleHand]
  /\ UNCHANGED handOnly

\* safeSendMessage of the reply or of the CTA.
H_Send(m) ==
  /\ hand[m].pc = "send"
  /\ \E sent \in SendResults :
       IF sent
       THEN /\ replyLog' = ReplyLogAfterSend(hand[m].groupId)
            /\ hand' = [hand EXCEPT ![m] = [@ EXCEPT !.pc = "record"]]
       ELSE /\ hand' = [hand EXCEPT ![m] = IdleHand]
            /\ UNCHANGED replyLog
  /\ UNCHANGED <<cfgVars, dmVars, now, queueVars, groupVars, repliedGroups,
                 groupReplyTimestamps, channelSearch, proc, disc, ghostVars>>

H_Record(m) ==
  /\ hand[m].pc = "record"
  /\ repliedGroups' = RepliedAfterRecord(hand[m].groupId)
  /\ groupReplyTimestamps' = TimestampsAfterRecord(hand[m].groupId)
  /\ hand' = [hand EXCEPT ![m] = IdleHand]
  /\ UNCHANGED <<cfgVars, dmVars, now, queueVars, groupVars, replyLog, channelSearch,
                 proc, disc, ghostVars>>

HandStep(m) ==
  \/ H_Start(m) \/ H_CanReply(m) \/ H_Recent(m) \/ H_Left(m) \/ H_Intent(m)
  \/ H_Send(m) \/ H_Record(m)

\* ------------------------------------------------------------ handleMessage (DM funnel)
Users == {"u1", "u2"}
NoUser == "nobody"
DmTexts == {"gmail", "/test", "other"}

\* window: the Gmail message arrived while a reminder timer of its sender was
\* armed and not yet due.
IdleDm == [pc |-> "idle", userId |-> NoUser, window |-> FALSE, sensitive |-> FALSE]

\* What the user sent and was sent: /test triggers that armed their timers,
\* Gmail messages, the bot's messages; windowEmail: a Gmail message that
\* arrived while a reminder timer was armed has been handled to the end.
NoDmLog ==
  [triggers |-> 0, emails |-> 0, confirmations |-> 0, reminders |-> 0,
   ugcs |-> 0, windowEmail |-> FALSE]

\* redis.get of a key with an expiry: the value while the key is alive.
Alive(key, u) == key[u] > now

ReminderSec == DM_REMINDER_MIN * 60
ConvertedSec == 7 * 24 * 3600

\* A reminder timer of u is armed and not yet due.
Armed(u) ==
  \E t \in timers :
    t.userId = u /\ t.kind = "reminder" /\ t.pc = "armed" /\ t.due > now

dmOnly == <<cfgVars, now, queueVars, groupVars, replyVars, channelSearch,
            proc, disc, hand, ghostVars, pendingReminder, pendingUGC,
            converted, timers, dmLog>>

\* An inbound private text of user u, dropped when it has a sensitive word
\* ("support@gmail.com", "/test admin"); otherwise
\* a Gmail address (3a: redis.get of
\* pendingReminder:<u>; without it the text falls through to the /test
\* pattern, which a Gmail address does not match), /test, or anything else.
DM_Start(m) ==
  /\ dm[m].pc = "idle"
  /\ budget.msgs > 0
  /\ budget' = [budget EXCEPT !.msgs = @ - 1]
  /\ \E u \in Users, text \in DmTexts, sensitive \in BOOLEAN :
       LET pending == redis /\ Alive(pendingReminder, u) IN
       /\ dm' = [dm EXCEPT ![m] =
            CASE ~PassesGate(sensitive) -> [IdleDm EXCEPT !.sensitive = TRUE]
              [] text = "gmail" /\ pending ->
                   [pc |-> "confirm", userId |-> u, window |-> Armed(u),
                    sensitive |-> sensitive]
              [] text = "/test" ->
                   [pc |-> "instructions", userId |-> u, window |-> FALSE,
                    sensitive |-> sensitive]
              [] OTHER -> IdleDm]
       /\ dmLog' =
            IF text = "gmail" /\ PassesGate(sensitive)
            THEN [dmLog EXCEPT ![u].emails = @ + 1,
                               ![u].windowEmail = @ \/ (~pending /\ Armed(u))]
            ELSE dmLog
  /\ UNCHANGED <<cfgVars, now, queueVars, groupVars, replyVars, channelSearch,
                 proc, disc, hand, retryLog, scenarioD, pendingReminder,
                 pendingUGC, converted, timers>>

\* The confirmation message to the user.
DM_Confirm(m) ==
  /\ dm[m].pc = "confirm"
  /\ \E sent \in NoteResults :
       IF sent = "ok"
       THEN /\ dmLog' = [dmLog EXCEPT ![dm[m].userId].confirmations = @ + 1]
            /\ dm' = [dm EXCEPT ![m] = [@ EXCEPT !.pc = "convert"]]
       ELSE /\ dm' = [dm EXCEPT ![m] = IdleDm]
            /\ UNCHANGED dmLog
  /\ UNCHANGED <<cfgVars, now, queueVars, groupVars, replyVars, channelSearch,
                 proc, disc, hand, ghostVars, pendingReminder, pendingUGC,
                 converted, timers>>

\* set converted:<u> EX 7 days, del pendingReminder:<u>, del pendingUGC:<u>
\* (a timer that runs between them sees converted and does nothing).
DM_Convert(m) ==
  /\ dm[m].pc = "convert"
  /\ LET u == dm[m].userId IN
       /\ converted' = [converted EXCEPT ![u] = now + ConvertedSec * 1000]
       /\ pendingReminder' = [pendingReminder EXCEPT ![u] = 0]
       /\ pendingUGC' = [pendingUGC EXCEPT ![u] = 0]
       /\ dmLog' = IF dm[m].window
                   THEN [dmLog EXCEPT ![u].windowEmail = TRUE] ELSE dmLog
  /\ dm' = [dm EXCEPT ![m] = IdleDm]
  /\ UNCHANGED <<cfgVars, now, queueVars, groupVars, replyVars, channelSearch,
                 proc, disc, hand, ghostVars, timers>>

\* 3b: the beta instructions to the user; without Redis nothing more happens.
DM_Instructions(m) ==
  /\ dm[m].pc = "instructions"
  /\ \E sent \in NoteResults :
       dm' = [dm EXCEPT ![m] =
         IF sent = "ok" /\ redis THEN [@ EXCEPT !.pc = "setPending"] ELSE IdleDm]
  /\ UNCHANGED dmOnly

\* set pendingReminder:<u> EX DM_REMINDER_MIN * 60.
DM_SetPending(m) ==
  /\ dm[m].pc = "setPending"
  /\ pendingReminder' =
       [pendingReminder EXCEPT ![dm[m].userId] = now + ReminderSec * 1000]
  /\ dm' = [dm EXCEPT ![m] = [@ EXCEPT !.pc = "arm"]]
  /\ UNCHANGED <<cfgVars, now, queueVars, groupVars, replyVars, channelSearch,
                 proc, disc, hand, ghostVars, pendingUGC, converted, timers,
                 dmLog>>

\* The "/test funnel" note, then the two setTimeout calls.
DM_Arm(m) ==
  /\ dm[m].pc = "arm"
  /\ LET u == dm[m].userId IN
     \E note \in NoteResults :
       IF note = "ok"
       THEN /\ timers' = timers \cup
                 {[userId |-> u, id |-> dmLog[u].triggers + 1, kind |-> "reminder",
                   due |-> now + ReminderSec * 1000, pc |-> "armed"],
                  [userId |-> u, id |-> dmLog[u].triggers + 1, kind |-> "ugc",
                   due |-> now + 3 * ReminderSec * 1000, pc |-> "armed"]}
            /\ dmLog' = [dmLog EXCEPT ![u].triggers = @ + 1]
       ELSE UNCHANGED <<timers, dmLog>>
  /\ dm' = [dm EXCEPT ![m] = IdleDm]
  /\ UNCHANGED <<cfgVars, now, queueVars, groupVars, replyVars, channelSearch,
                 proc, disc, hand, ghostVars, pendingReminder, pendingUGC,
                 converted>>

DmStep(m) ==
  \/ DM_Start(m) \/ DM_Confirm(m) \/ DM_Convert(m)
  \/ DM_Instructions(m) \/ DM_SetPending(m) \/ DM_Arm(m)

timerOnly == <<cfgVars, now, queueVars, groupVars, replyVars, channelSearch,
               proc, disc, hand, ghostVars, pendingReminder, pendingUGC,
               converted, dm, dmLog>>

\* A timer callback starts: redis.get(converted:<u>) and the get of its
\* pending key; it goes on only for a user not converted and still pending.
T_Read(t) ==
  /\ t.pc = "armed"
  /\ now >= t.due
  /\ LET u == t.userId
         isConverted == Alive(converted, u)
         pending == IF t.kind = "reminder" THEN Alive(pendingReminder, u)
                    ELSE Alive(pendingUGC, u)
     IN  timers' = IF ~isConverted /\ pending
                   THEN (timers \ {t}) \cup {[t EXCEPT !.pc = "send"]}
                   ELSE timers \ {t}
  /\ UNCHANGED timerOnly

\* The reminder, or the UGC prompt, to the user.
T_Send(t) ==
  /\ t.pc = "send"
  /\ \E sent \in NoteResults :
       IF sent = "ok"
       THEN /\ timers' = (timers \ {t}) \cup {[t EXCEPT !.pc = "update"]}
            /\ dmLog' = IF t.kind = "reminder"
                        THEN [dmLog EXCEPT ![t.userId].reminders = @ + 1]
                        ELSE [dmLog EXCEPT ![t.userId].ugcs = @ + 1]
       ELSE /\ timers' = timers \ {t}
            /\ UNCHANGED dmLog
  /\ UNCHANGED <<cfgVars, now, queueVars, groupVars, replyVars, channelSearch,
                 proc, disc, hand, ghostVars, pendingReminder, pendingUGC,
                 converted, dm>>

\* Reminder: set pendingUGC:<u> EX 2 * DM_REMINDER_MIN * 60, del
\* pendingReminder:<u>.  UGC prompt: del pendingUGC:<u>.
T_Update(t) ==
  /\ t.pc = "update"
  /\ timers' = timers \ {t}
  /\ IF t.kind = "reminder"
     THEN /\ pendingUGC' = [pendingUGC EXCEPT ![t.userId] = now + 2 * ReminderSec * 1000]
          /\ pendingReminder' = [pendingReminder EXCEPT ![t.userId] = 0]
     ELSE /\ pendingUGC' = [pendingUGC EXCEPT ![t.userId] = 0]
          /\ UNCHANGED pendingReminder
  /\ UNCHANGED <<cfgVars, now, queueVars, groupVars, replyVars, channelSearch,
                 proc, disc, hand, ghostVars, converted, dm, dmLog>>

TimerRead == \E t \in timers : T_Read(t)
TimerSend == \E t \in timers : T_Send(t)
TimerUpdate == \E t \in timers : T_Update(t)

\* A reminder window passes.
DmTickMs == ReminderSec * 1000
DmTick ==
  /\ now < StartTime + MaxDmTicks * DmTickMs
  /\ now' = now + DmTickMs
  /\ UNCHANGED <<cfgVars, dmVars, queueVars, groupVars, replyVars, channelSearch,
                 proc, disc, hand, ghostVars>>

\* ------------------------------------------------------------ specifications
\* After construction: the stores are empty, no job has fired.  The account
\* may already be a participant of a candidate's channel.
\* The helper modules after construction: empty sets, the empty keyword cache
\* (keyword-helper.ts 3-4), no user state (45), and no call under way.  A
\* specification of one helper names in "inputs" the variables it draws itself.
InitSide(inputs) ==
  /\ "processed_channels" \in inputs \/ processed_channels = {}
  /\ pending_channels = {}
  /\ discover = [pc |-> "idle", allKeywords |-> <<>>, searched |-> <<>>,
                 channels |-> {}, returned |-> {}]
  /\ cachedKeywords = <<>>
  /\ lastFetched = 0
  /\ keywordLog = [calls |-> 0, fetched |-> FALSE, failed |-> FALSE, okAt |-> -1,
                   result |-> <<>>]
  /\ userStates = [u \in Users |-> "undefined"]
  /\ sentLog = [u \in Users |-> [thanks |-> 0, greeting |-> 0, cta |-> 0]]
  /\ "retry" \in inputs \/
       retry = [pc |-> "idle", attempts |-> 0, i |-> 0, outcomes |-> <<>>,
                lastErr |-> "undefined", value |-> "undefined"]
  /\ "relevance" \in inputs \/
       relevance = [pc |-> "idle", recentTexts |-> <<>>, pickedText |-> <<"null">>]

InitCommon ==
  /\ tableMissing \in BOOLEAN
  /\ now = StartTime
  /\ candidatesToJoin = <<>>
  /\ candidateRetrySet = [h \in Handles |-> -1]
  /\ candidateFailCounts = [h \in Handles |-> 0]
  /\ leftGroups = {}
  /\ joinKeys = [g \in Groups |-> 0]
  /\ repliedGroups = {}
  /\ groupReplyTimestamps = [g \in Groups |-> 0]
  /\ joinTimestamps = [g \in Groups |-> 0]
  /\ channelSearch = {}
  /\ member \in SUBSET {ChannelOf(h) : h \in Handles}
  /\ proc = [r \in Procs |-> IdleProc]
  /\ disc = [d \in Discs |-> IdleDisc]
  /\ hand = [m \in Hands |-> IdleHand]
  /\ replyLog = [g \in Groups |-> [day |-> 0, count |-> 0]]
  /\ retryLog = [h \in Handles |-> NoRetryLog]
  /\ scenarioD = [h \in Handles |-> 0]
  /\ pendingReminder = [u \in Users |-> 0]
  /\ pendingUGC = [u \in Users |-> 0]
  /\ converted = [u \in Users |-> 0]
  /\ timers = {}
  /\ dm = [m \in Hands |-> IdleDm]
  /\ dmLog = [u \in Users |-> NoDmLog]

\* A specification of one helper module: nothing of the pipeline runs, and the
\* helper named draws its inputs: any history of at most MaxTexts texts of at
\* most MaxTextLen characters for the relevance check, any number of attempts
\* up to MaxAttempts for fetchWithRetry, MaxLightMessages messages for the
\* lightweight handler, any set of processed channels for discovery.
InitHelper(helper) ==
  /\ redis = TRUE
  /\ script = FALSE
  /\ budget = [process |-> 0,
               scrape |-> IF helper = "processed_channels" THEN MaxDiscoverRuns ELSE 0,
               msgs |-> IF helper = "light" THEN MaxLightMessages ELSE 0]
  /\ InitCommon
  /\ InitSide({helper})
  /\ IF helper = "relevance"
     THEN LET text == UNION {[1..n -> {"e", "E", "t", "h"}] : n \in 0..MaxTextLen}
              lists == UNION {[1..n -> text] : n \in 0..MaxTexts}
          IN  relevance \in {[pc |-> "check", recentTexts |-> l,
                               pickedText |-> <<"null">>] : l \in lists}
     ELSE TRUE
  /\ IF helper = "retry"
     THEN retry \in {[pc |-> "loop", attempts |-> a, i |-> 0, outcomes |-> <<>>,
                       lastErr |-> "undefined", value |-> "undefined"] :
                      a \in 0..MaxAttempts}
     ELSE TRUE
  /\ IF helper = "processed_channels"
     THEN processed_channels \in SUBSET Handles
     ELSE TRUE

Init ==
  /\ redis \in BOOLEAN
  /\ script = FALSE
  /\ budget = [process |-> MaxProcessRuns, scrape |-> ScrapeRunsBeside, msgs |-> 0]
  /\ InitCommon
  /\ InitSide({})

\* One processor job at a time beside one discovery job, in any interleaving.
\* The queue is empty when the only discovery run starts and a run never
\* meets a handle twice, so its "already queued" branch is out of reach here
\* (SpecScrape has it).
Next == ProcStep(1) \/ D_Start(1) \/ D_Check(1) \/ D_Push(1) \/ Tick

Spec == Init /\ [][Next]_vars

\* Discovery on its own: the "*/5" job fires MaxScrapeRuns times in a row.
InitScrape ==
  /\ redis \in BOOLEAN
  /\ script = FALSE
  /\ budget = [process |-> 0, scrape |-> MaxScrapeRuns, msgs |-> 0]
  /\ InitCommon
  /\ InitSide({})

NextScrape == DiscStep(1) \/ Tick

SpecScrape == InitScrape /\ [][NextScrape]_vars

\* The tail calls of a candidate's processing on their own: a processing that
\* fails calls scheduleCandidateRetry(uname, base), one that passes calls
\* clearCandidateFailures(uname).
RetryBases == {DefaultBaseDelay, DefaultFloodWait}

R_Fail ==
  /\ proc[1].pc = "idle"
  /\ \E h \in Handles, base \in RetryBases :
       /\ retryLog[h].n < MaxFails
       /\ proc' = [proc EXCEPT ![1] =
            [IdleProc EXCEPT !.pc = "sched", !.uname = h, !.base = base,
                             !.after = "break"]]
  /\ UNCHANGED procOnly

R_Pass ==
  /\ proc[1].pc = "idle"
  /\ \E h \in Handles :
       /\ retryLog[h].n > 0
       /\ proc' = [proc EXCEPT ![1] =
            [IdleProc EXCEPT !.pc = "clear", !.uname = h, !.reason = "posted",
                             !.after = "break"]]
  /\ UNCHANGED procOnly

InitRetry ==
  /\ redis = TRUE
  /\ script = FALSE
  /\ budget = [process |-> 0, scrape |-> 0, msgs |-> 0]
  /\ InitCommon
  /\ InitSide({})

NextRetry ==
  \/ R_Fail \/ R_Pass \/ P_Sched(1) \/ P_Zadd(1) \/ P_Clear(1) \/ P_Exit(1)
  \/ Tick

SpecRetry == InitRetry /\ [][NextRetry]_vars

\* Scenario D: the jobs run against collaborators that always succeed, except
\* the AI, which always returns the empty string.
InitD ==
  /\ redis = TRUE
  /\ script = TRUE
  /\ budget = [process |-> MaxProcessRuns, scrape |-> ScrapeRunsBeside, msgs |-> 0]
  /\ InitCommon
  /\ InitSide({})

NextD ==
  \/ P_Start(1) \/ P_DequeueRead(1) \/ P_DequeueTake(1) \/ P_Announce(1)
  \/ P_Resolve(1) \/ P_GuardRecent(1) \/ P_GuardLeft(1) \/ P_SkipNote(1)
  \/ P_Join(1) \/ P_Fetch(1) \/ P_Generate(1) \/ P_Leave(1) \/ P_RecordLeft(1)
  \/ P_Clear(1) \/ P_Sched(1) \/ P_Zadd(1)
  \/ D_Start(1) \/ D_Check(1) \/ D_Push(1)
  \/ Tick

SpecD == InitD /\ [][NextD]_vars

\* Inbound group messages on their own: two handleMessage invocations at a time.
InitMsg ==
  /\ redis \in BOOLEAN
  /\ script = FALSE
  /\ budget = [process |-> 0, scrape |-> 0, msgs |-> MaxMessages]
  /\ InitCommon
  /\ InitSide({})

NextMsg == HandStep(1) \/ HandStep(2) \/ Tick

SpecMsg == InitMsg /\ [][NextMsg]_vars

\* ------------------------------------------------------------ properties
Occurrences(list, x) == Cardinality({k \in 1..Len(list) : list[k] = x})

\* C1: between two candidates of a run, the candidate just processed has
\* reached exactly one of Done (reply sent), SkipNoRetry and Retry (an entry
\* written to candidateRetrySet).
C1_ExactlyOneOutcome ==
  (proc[1].pc \in EndPcs /\ proc[1].uname # NoHandle)
    => Cardinality(proc[1].outcome) = 1

\* C2: whatever a discovery job attempts to enqueue, no handle is in
\* candidatesToJoin more than once.
C2_EnqueueOnce == \A h \in Handles : Occurrences(candidatesToJoin, h) <= 1

\* C2 witness: an enqueue attempt found its handle in the queue already.
C2_Witness ==
  /\ disc[1].pc = "alreadyQueued"
  /\ Occurrences(candidatesToJoin, disc[1].uname) = 1

\* C3: after the Nth consecutive call of scheduleCandidateRetry for a handle
\* with one base and no clear in between, the retry entry is due at the time
\* of the call plus min(maxRetryDelay, base * 2^(N-1)) seconds, and that delay
\* is no smaller than the one of the call before.
C3_Backoff ==
  \A h \in Handles :
    LET L == retryLog[h] IN
    (L.n >= 1 /\ L.base > 0) =>
      /\ L.delay = Min(maxRetryDelay, L.base * Pow2(L.n - 1))
      /\ candidateRetrySet[h] = L.at + L.delay * 1000
      /\ L.delay >= L.prev

\* C3 witness: a run of failures long enough for the cap to apply.
C3_Witness ==
  \E h \in Handles :
    /\ retryLog[h].n >= 3
    /\ retryLog[h].base = DefaultBaseDelay
    /\ retryLog[h].delay = maxRetryDelay
    /\ retryLog[h].prev = maxRetryDelay

\* C4: the processor is never about to invoke JoinChannel for a channel that
\* is in leftGroups.
C4_NeverRejoin == proc[1].pc = "join" => proc[1].chan \notin leftGroups

\* C4 witness: a handle taken from the retry set or the queue stopped at the
\* hasLeft guard.
C4_Witness ==
  /\ proc[1].pc = "skipNote"
  /\ proc[1].reason = "left"
  /\ proc[1].chan \in leftGroups

\* C5: when a candidate's processing ended with a quality verdict (too few
\* texts, or none relevant), the account has left the group, hasLeftGroup is
\* true, and the handle has neither a retry entry nor a failure count.
C5_QualityTerminal ==
  (proc[1].pc \in EndPcs /\ proc[1].reason \in {"lowActivity", "irrelevant"})
    => LET h == proc[1].uname
           g == ChannelOf(h)
       IN  /\ g \notin member
           /\ hasLeftGroup(g)
           /\ candidateRetrySet[h] = -1
           /\ candidateFailCounts[h] = 0

\* C6: from the moment the try block has thrown FLOOD_WAIT, the run only
\* sleeps, reschedules and ends; it never goes back to dequeueing.
C6_FloodAborts ==
  [][proc[1].err = "FLOOD_WAIT"
       => proc'[1].pc \in {"catch", "floodSleep", "sched", "zadd", "exit"}]_vars

\* C6 witness: the run ended by the break with a handle still queued, a retry
\* entry present and the per-run cap not reached.
C6_Witness ==
  /\ proc[1].pc = "exit"
  /\ proc[1].after = "break"
  /\ candidatesToJoin # <<>>
  /\ \E h \in Handles : candidateRetrySet[h] >= 0
  /\ proc[1].i + 1 < maxJoinPerRun

\* C7: dequeueCandidate reads the due retry entry of smallest score if there
\* is one; it then returns that entry, removed from the retry set with the
\* queue untouched, and otherwise the popped head of the queue; what it takes
\* from the retry set is due.
C7_DequeueOrder ==
  [][/\ (proc[1].pc = "dequeue" /\ proc'[1].pc = "take") =>
          LET D == {h \in Handles : candidateRetrySet[h] >= 0
                                    /\ candidateRetrySet[h] <= now}
          IN  IF D = {} THEN proc'[1].due = NoHandle
              ELSE /\ proc'[1].due \in D
                   /\ \A k \in D :
                        candidateRetrySet[proc'[1].due] <= candidateRetrySet[k]
     /\ (proc[1].pc = "take" /\ proc'[1].pc # "take") =>
          IF proc[1].due # NoHandle
          THEN /\ candidateRetrySet[proc[1].due] >= 0
               /\ candidateRetrySet[proc[1].due] <= now
               /\ proc'[1].uname = proc[1].due
               /\ candidateRetrySet' = [candidateRetrySet EXCEPT ![proc[1].due] = -1]
               /\ candidatesToJoin' = candidatesToJoin
          ELSE /\ candidateRetrySet' = candidateRetrySet
               /\ IF candidatesToJoin # <<>>
                  THEN /\ proc'[1].uname = Head(candidatesToJoin)
                       /\ candidatesToJoin' = Tail(candidatesToJoin)
                  ELSE proc'[1].pc = "idle"]_vars

\* C7 witness: a due retry entry is about to be taken ahead of a queued handle
\* while the other retry entry is not the one of smallest score.
C7_Witness ==
  /\ proc[1].pc = "take"
  /\ proc[1].due # NoHandle
  /\ \E k \in Handles :
       /\ candidateRetrySet[k] > candidateRetrySet[proc[1].due]
       /\ candidateRetrySet[k] <= now

\* C8: under Scenario D, between two candidates the failure count of a handle
\* equals the number of its attempts so far (up to three).
C8_CountsAttempts ==
  proc[1].pc \in EndPcs \cup {"idle"} =>
    \A h \in Handles :
      scenarioD[h] <= ScenarioCap => candidateFailCounts[h] = scenarioD[h]

\* C9: no group receives more than one reply within one day bucket.
C9_OneReplyPerDay == \A g \in Groups : replyLog[g].count <= 1

\* C10: no reply is sent into a group whose post-join window is open.
C10_QuietWindow ==
  [][\A g \in Groups :
       replyLog'[g] # replyLog[g] => ~recentlyJoinedGroup(g)]_vars

\* ------------------------------------------------------------ the reply cooldown over hours
\* A quiet stretch a little longer than the fallback's hour.
Hour ==
  /\ now + HourMs + TickMs <= EndTime + MaxHours * (HourMs + TickMs)
  /\ now' = now + HourMs + TickMs
  /\ UNCHANGED <<cfgVars, dmVars, queueVars, groupVars, replyVars, channelSearch,
                 proc, disc, hand, ghostVars>>

NextCooldown == HandStep(1) \/ HandStep(2) \/ Tick \/ Hour

SpecCooldown == InitMsg /\ [][NextCooldown]_vars

\* C11: a step that is not a recordGroupReply(g) and stays within the day
\* bucket leaves the answer of canReplyGroup(g) as it was.
C11_CooldownIdempotent ==
  [][\A g \in Groups :
       (/\ Day(now') = Day(now)
        /\ repliedGroups' = repliedGroups
        /\ groupReplyTimestamps'[g] = groupReplyTimestamps[g])
         => (canReplyGroup(g)' = canReplyGroup(g))]_vars

\* ------------------------------------------------------------ the DM funnel on its own
InitDM ==
  /\ redis \in BOOLEAN
  /\ script = FALSE
  /\ budget = [process |-> 0, scrape |-> 0, msgs |-> MaxMessages]
  /\ InitCommon
  /\ InitSide({})

NextDM ==
  \/ DmStep(1) \/ DmStep(2) \/ TimerRead \/ TimerSend \/ TimerUpdate \/ DmTick

SpecDM == InitDM /\ [][NextDM]_vars

\* C12: a user whose Gmail address arrived after /test had armed the timers
\* and before the reminder timer was due, and was handled to the end, is
\* converted.
C12_EmailConverts ==
  \A u \in Users : dmLog[u].windowEmail => Alive(converted, u)

\* C13: when the reminder timer of a user who sent no email and is not
\* converted fires, its callback goes on to send the reminder.
C13_ReminderSent ==
  [][\A t \in timers :
       (/\ t.kind = "reminder"
        /\ t.pc = "armed"
        /\ t \notin timers'
        /\ dmLog[t.userId].emails = 0
        /\ ~Alive(converted, t.userId))
         => [t EXCEPT !.pc = "send"] \in timers']_vars

\* ------------------------------------------------------------ overlapping jobs
\* The "0,30" job fires again while its previous run is still going (nothing
\* in main skips a tick); collaborators as in Scenario D.
ScriptedProcStep(r) ==
  \/ P_Start(r) \/ P_DequeueRead(r) \/ P_DequeueTake(r) \/ P_Announce(r)
  \/ P_Resolve(r) \/ P_GuardRecent(r) \/ P_GuardLeft(r) \/ P_SkipNote(r)
  \/ P_Join(r) \/ P_Fetch(r) \/ P_Generate(r) \/ P_Leave(r) \/ P_RecordLeft(r)
  \/ P_Clear(r) \/ P_Sched(r) \/ P_Zadd(r)

NextOverlap ==
  \/ ScriptedProcStep(1) \/ ScriptedProcStep(2)
  \/ D_Start(1) \/ D_Check(1) \/ D_Push(1)
  \/ Tick

SpecOverlap == InitD /\ [][NextOverlap]_vars

\* The "*/5" job fires again while its previous run is still going.
NextScrapeOverlap == DiscStep(1) \/ DiscStep(2) \/ Tick

SpecScrapeOverlap == InitScrape /\ [][NextScrapeOverlap]_vars

\* A run holds a handle from the moment dequeueCandidate returned it until the
\* iteration is over.
Processing(r) ==
  IF proc[r].pc \in {"idle", "dequeue", "take", "jitter", "wake", "exit"}
  THEN NoHandle ELSE proc[r].uname

\* C14: two overlapping runs never process the same handle at the same time.
C14_OneProcessing ==
  Processing(1) # NoHandle => Processing(1) # Processing(2)

\* C15: at most one run of each periodic job is active.
C15_NoOverlap ==
  /\ proc[1].pc = "idle" \/ proc[2].pc = "idle"
  /\ disc[1].pc = "idle" \/ disc[2].pc = "idle"

\* C16: with two discovery runs interleaved, no handle is in candidatesToJoin
\* more than once.
C16_EnqueueOnceOverlapped ==
  \A h \in Handles :
    Cardinality({k \in 1..Len(candidatesToJoin) : candidatesToJoin[k] = h}) <= 1

\* C17: a handle's failure count changes only by one more at a
\* scheduleCandidateRetry and back to none at a clearCandidateFailures, and
\* every retry entry written is due at most maxRetryDelay seconds later.
C17_CountAndCap ==
  [][\A h \in Handles :
       /\ \/ candidateFailCounts'[h] = candidateFailCounts[h]
          \/ /\ candidateFailCounts'[h] = candidateFailCounts[h] + 1
             /\ proc[1].pc = "sched" /\ proc[1].uname = h
          \/ /\ candidateFailCounts'[h] = 0
             /\ proc[1].pc = "clear" /\ proc[1].uname = h
       /\ candidateRetrySet'[h] # candidateRetrySet[h] =>
            /\ candidateRetrySet'[h] >= now
            /\ candidateRetrySet'[h] <= now + maxRetryDelay * 1000]_vars

\* C17 witness: retries with a flood-wait base have reached the cap.
C17_Witness ==
  \E h \in Handles :
    /\ retryLog[h].base = DefaultFloodWait
    /\ retryLog[h].delay = maxRetryDelay
    /\ candidateFailCounts[h] = retryLog[h].n
    /\ candidateRetrySet[h] = retryLog[h].at + maxRetryDelay * 1000

\* C18: when a join raises FLOOD_WAIT(s) for a handle with no earlier
\* failures, the retry entry written for the handle is due no later than
\* s seconds plus the grace period after the flood-wait response (the run's
\* wake time is that response time plus s plus the grace period).
C18_FloodDue ==
  [][\A r \in Procs :
       (/\ redis
        /\ proc[r].pc = "zadd" /\ proc'[r].pc # "zadd"
        /\ proc[r].after = "break" /\ proc[r].count = 1)
       => /\ proc[r].base = proc[r].wait
          /\ candidateRetrySet'[proc[r].uname] <= proc[r].wake]_vars

\* C19: when a candidate's processing ended after a successful join because
\* the AI returned the empty string or the reply could not be sent, the
\* account has left the group, hasLeftGroup is true, the failure count went
\* up by one with the one scheduleCandidateRetry call of the attempt, and
\* the handle has its retry entry.
C19_LeaveAndRetry ==
  (proc[1].pc \in EndPcs /\ proc[1].reason \in {"aiFailed", "sendFailed"})
    => LET h == proc[1].uname
           g == ChannelOf(h)
       IN  /\ g \notin member
           /\ hasLeftGroup(g)
           /\ "Retry" \in proc[1].outcome
           /\ candidateFailCounts[h] = retryLog[h].n
           /\ candidateFailCounts[h] >= 1
           /\ candidateRetrySet[h] = retryLog[h].at + retryLog[h].delay * 1000

\* C20: a handle whose resolution failed goes straight to
\* scheduleCandidateRetry with the default base and the run goes on (no join
\* in between); an error of the try block other than ALREADY_PARTICIPANT and
\* FLOOD_WAIT records the group as left and goes to scheduleCandidateRetry,
\* after which the run goes on with the next candidate.
C20_ErrorsRetry ==
  [][/\ (proc[1].pc = "resolve" /\ proc'[1].pc \notin {"resolve", "guardRecent"})
          => /\ proc'[1].pc = "sched"
             /\ proc'[1].base = DefaultBaseDelay
             /\ proc'[1].after = "continue"
     /\ (proc[1].pc = "catch" /\ proc[1].err = "OTHER" /\ proc'[1].pc # "catch")
          => /\ proc[1].chan \in leftGroups'
             /\ proc'[1].pc = "sched"
             /\ proc'[1].after = "sleep"
     /\ (proc[1].pc = "zadd" /\ proc[1].reason = "unresolved" /\ proc'[1].pc # "zadd")
          => /\ proc'[1].pc = "dequeue"
             /\ member' = member
             /\ redis => candidateRetrySet'[proc[1].uname] =
                           now + RetryDelay(DefaultBaseDelay, proc[1].count) * 1000]_vars

\* C21: when a candidate was skipped by the recentlyJoined or the hasLeft
\* guard, no join was attempted for it and the handle has neither a failure
\* count nor an entry in the retry set.
C21_GuardSkipClears ==
  (/\ proc[1].pc \in EndPcs
   /\ proc[1].reason \in {"recent", "left"}
   /\ "SkipNoRetry" \in proc[1].outcome)
    => LET h == proc[1].uname
       IN  /\ candidateFailCounts[h] = 0
           /\ candidateRetrySet[h] = -1

\* One processor job beside two discovery jobs in a row, with the store on
\* and the channelSearch table missing: a handle may be scraped again.
InitRequeue ==
  /\ redis = TRUE
  /\ script = FALSE
  /\ budget = [process |-> 1, scrape |-> MaxScrapeRuns, msgs |-> 0]
  /\ InitCommon
  /\ InitSide({})
  /\ tableMissing

NextRequeue == ProcStep(1) \/ DiscStep(1) \/ Tick

SpecRequeue == InitRequeue /\ [][NextRequeue]_vars

\* C22: when the try block threw USER_ALREADY_PARTICIPANT, the catch block
\* writes no retry entry, leaves the failure count and leftGroups as they
\* are, and the run goes on to the next dequeue.
C22_AlreadySkips ==
  [][(proc[1].pc = "catch" /\ proc[1].err = "ALREADY" /\ proc'[1].pc # "catch")
       => /\ proc'[1].pc = "dequeue"
          /\ proc'[1].i = proc[1].i + 1
          /\ "Retry" \notin proc'[1].outcome
          /\ UNCHANGED <<candidateRetrySet, candidateFailCounts, leftGroups>>]_vars

\* C22 witness: a candidate ended as already a participant, with no retry
\* entry, and the run is at its next dequeue.
C22_Witness ==
  /\ redis
  /\ proc[1].pc = "dequeue" /\ proc[1].i >= 1
  /\ proc[1].reason = "participant"
  /\ proc[1].outcome = {"SkipNoRetry"}
  /\ candidateRetrySet[proc[1].uname] = -1
  /\ ChannelOf(proc[1].uname) \notin leftGroups

\* C23: a run leaves its loop before the queue is empty or the cap reached
\* only by the break of the FLOOD_WAIT branch; no error of one candidate ends
\* the run.
C23_FailuresIsolated ==
  [][(proc[1].pc # "exit" /\ proc'[1].pc = "exit") => proc'[1].after = "break"]_vars

\* C24: within a run, the loop comes back to its next dequeue only from the
\* end of the jitter sleep, whatever the outcome of the candidate before.
C24_JitterBetween ==
  [][(proc[1].pc \notin {"idle", "dequeue"} /\ proc'[1].pc = "dequeue")
       => /\ proc[1].pc = "wake"
          /\ now >= proc[1].wake]_vars

\* ------------------------------------------------------------ the per-run caps
\* A scrape that returns more healthy usernames than one run may enqueue:
\* ScrapedBeyondCap more than maxScrapePerRun, named c1, c2, ...
ScrapedBeyondCap == 1
ManyList == [k \in 1..(maxScrapePerRun + ScrapedBeyondCap) |-> "c" \o ToString(k)]
ManyHandles == {ManyList[k] : k \in DOMAIN ManyList}

\* scrapePublicSources finds ManyHandles, none searched before, all popular.
D_StartMany(d) ==
  /\ disc[d].pc = "idle"
  /\ budget.scrape > 0
  /\ budget' = [budget EXCEPT !.scrape = @ - 1]
  /\ LET fresh == {h \in ManyHandles : ~channelAlreadySearched(h)} IN
     /\ channelSearch' =
          IF tableMissing THEN channelSearch ELSE channelSearch \cup fresh
     /\ disc' = [disc EXCEPT ![d] =
          [IdleDisc EXCEPT !.pc = "check",
                           !.scraped = SelectSeq(ManyList, LAMBDA h : h \in fresh),
                           !.k = 1]]
  /\ UNCHANGED <<cfgVars, dmVars, now, queueVars, groupVars, replyVars, proc, hand,
                 retryLog, scenarioD>>

\* The loop head when the username passes the blacklist and the health check.
D_CheckHealthy(d) == D_Check(d) /\ disc'[d].pc # "check"

\* One processor job beside one discovery job whose scrape is ManyList, under
\* Scenario D's collaborators, within one instant.
InitCap ==
  /\ InitSide({})
  /\ redis = TRUE
  /\ script = TRUE
  /\ tableMissing = FALSE
  /\ budget = [process |-> 1, scrape |-> 1, msgs |-> 0]
  /\ now = StartTime
  /\ candidatesToJoin = <<>>
  /\ candidateRetrySet = [h \in ManyHandles |-> -1]
  /\ candidateFailCounts = [h \in ManyHandles |-> 0]
  /\ leftGroups = {}
  /\ joinKeys = [g \in Groups |-> 0]
  /\ repliedGroups = {}
  /\ groupReplyTimestamps = [g \in Groups |-> 0]
  /\ joinTimestamps = [g \in Groups |-> 0]
  /\ channelSearch = {}
  /\ member = {}
  /\ proc = [r \in Procs |-> IdleProc]
  /\ disc = [d \in Discs |-> IdleDisc]
  /\ hand = [m \in Hands |-> IdleHand]
  /\ replyLog = [g \in Groups |-> [day |-> 0, count |-> 0]]
  /\ retryLog = [h \in ManyHandles |-> NoRetryLog]
  /\ scenarioD = [h \in ManyHandles |-> 0]
  /\ pendingReminder = [u \in Users |-> 0]
  /\ pendingUGC = [u \in Users |-> 0]
  /\ converted = [u \in Users |-> 0]
  /\ timers = {}
  /\ dm = [m \in Hands |-> IdleDm]
  /\ dmLog = [u \in Users |-> NoDmLog]

NextCap ==
  \/ ScriptedProcStep(1)
  \/ D_StartMany(1) \/ D_CheckHealthy(1) \/ D_Push(1)

SpecCap == InitCap /\ [][NextCap]_vars

\* C25: a run of processCandidateQueue takes a candidate from the store only
\* in one of its first maxJoinPerRun iterations, and a run of
\* scrapeAndEnqueueCandidates appends to the main queue only while it has
\* appended fewer than maxScrapePerRun handles; the queue, empty before the
\* one discovery run, never holds more than maxScrapePerRun handles.
C25_PerRunCaps ==
  [][/\ proc'[1].i <= maxJoinPerRun
     /\ (proc[1].pc = "take" /\ proc'[1].pc = "announce")
          => proc[1].i < maxJoinPerRun
     /\ Len(candidatesToJoin') > Len(candidatesToJoin)
          => disc[1].added < maxScrapePerRun
     /\ Len(candidatesToJoin') <= maxScrapePerRun]_vars

\* C25 witness: both caps were reached with work left: the discovery run is
\* over with a scraped handle not enqueued, and the processor run has done
\* maxJoinPerRun iterations with handles still queued.
C25_Witness ==
  /\ disc[1].pc = "idle" /\ budget.scrape = 0
  /\ proc[1].pc = "dequeue" /\ proc[1].i = maxJoinPerRun
  /\ Len(candidatesToJoin) = maxScrapePerRun - maxJoinPerRun
  /\ ~Includes(candidatesToJoin, ManyList[maxScrapePerRun + 1])

\* C26: discovery never appends to the main queue a handle the processor has
\* consumed: one it is processing or processed last, or one it has scheduled
\* a retry for.
C26_NoRequeue ==
  [][\A h \in Handles :
       Occurrences(candidatesToJoin', h) > Occurrences(candidatesToJoin, h)
         => /\ retryLog[h].n = 0
            /\ proc[1].uname # h]_vars

\* C27: between two candidates the account is a member of no group recorded
\* in leftGroups, and when the candidate just processed had been joined and
\* then dropped (low activity, irrelevant, AI empty, send failed) the account
\* is no longer a member of its group.
C27_NotMemberAfterFailure ==
  proc[1].pc \in EndPcs
    => /\ \A g \in leftGroups : g \notin member
       /\ proc[1].reason \in {"lowActivity", "irrelevant", "aiFailed", "sendFailed"}
            => ChannelOf(proc[1].uname) \notin member

\* ------------------------------------------------------------ the funnel, message by message
\* Private messages handled one after the other within one reminder window,
\* the store on.
MaxFunnelMessages == 4

InitFunnel ==
  /\ redis = TRUE
  /\ script = FALSE
  /\ budget = [process |-> 0, scrape |-> 0, msgs |-> MaxFunnelMessages]
  /\ InitCommon
  /\ InitSide({})

NextFunnel == DmStep(1)

SpecFunnel == InitFunnel /\ [][NextFunnel]_vars

\* C28: a Gmail address from a user whose converted key is alive starts no
\* confirmation: its handler ends at once, and nothing of the funnel changes.
C28_ConversionIdempotent ==
  [][\A u \in Users :
       (dmLog'[u].emails > dmLog[u].emails /\ Alive(converted, u))
         => /\ dm' = dm
            /\ UNCHANGED <<pendingReminder, pendingUGC, converted, timers>>]_vars

\* C29: a Gmail address from a user whose pendingUGC key is alive (reminder
\* sent, not converted) starts the conversion.
C29_UgcEmailConverts ==
  [][\A u \in Users :
       (/\ dmLog'[u].emails > dmLog[u].emails
        /\ Alive(pendingUGC, u) /\ ~Alive(converted, u))
         => \E m \in Hands : dm'[m].pc = "confirm" /\ dm'[m].userId = u]_vars

\* ------------------------------------------------------------ replies and silence
\* Inbound group and private messages, one handler each, within one instant.
NextSilent == HandStep(1) \/ DmStep(1)

SpecSilent == InitMsg /\ [][NextSilent]_vars

C36_QueueXorRetry ==
  \A h \in Handles : ~(Includes(candidatesToJoin, h) /\ candidateRetrySet[h] # -1)

\* ------------------------------------------------------------ C37
\* C37: every handle in the retry set has a failure count of at least 1 (the
\* sorted set itself holds one score per handle).
C37_RetryHasFailures ==
  \A h \in Handles : candidateRetrySet[h] # -1 => candidateFailCounts[h] >= 1

\* ------------------------------------------------------------ C38
\* C38: while a user's converted key is alive, the conversion confirmation has
\* been sent to that user at most once.
C38_ConvertedOnce ==
  \A u \in Users : Alive(converted, u) => dmLog[u].confirmations <= 1

\* ------------------------------------------------------------ C35

\* The relevance check of the processor and its choice of the message to
\* answer: the leave branch, or pickedText for generateAIReply.
R_Check ==
  /\ relevance.pc = "check"
  /\ relevance' =
       IF ~containsRelevantKeyword(relevance.recentTexts)
       THEN [relevance EXCEPT !.pc = "leave"]
       ELSE [relevance EXCEPT
               !.pc = "generate",
               !.pickedText = pickMostRelevantMessage(relevance.recentTexts)]
  /\ UNCHANGED <<redis, script, tableMissing, processed_channels, pending_channels,
                 discover, cachedKeywords, lastFetched, keywordLog, userStates,
                 sentLog, retry, now, queueVars, groupVars, replyVars, ghostVars,
                 dmVars, channelSearch, proc, disc, hand>>

\* The two functions on every list of at most MaxTexts texts of at most
\* MaxTextLen characters.
SpecRelevance == InitHelper("relevance") /\ [][R_Check]_vars

\* C35: pickMostRelevantMessage returns the first message that contains a
\* relevance keyword, whatever the case of its letters, and null exactly when
\* containsRelevantKeyword is false; the reply step always has a picked message.
C35_PickFirstRelevant ==
  LET texts == relevance.recentTexts
      hits == {k \in 1..Len(texts) : MentionsKeyword(texts[k])}
  IN  /\ (pickMostRelevantMessage(texts) = <<"null">>) <=> ~containsRelevantKeyword(texts)
      /\ relevance.pc = "generate" =>
           /\ relevance.pickedText # <<"null">>
           /\ \E k \in hits : /\ \A j \in hits : k <= j
                              /\ relevance.pickedText = texts[k]
      /\ relevance.pc = "leave" => hits = {}

C35_Witness ==
  /\ relevance.pc = "generate"
  /\ relevance.recentTexts = << <<"E", "t", "h">>, <<"e", "t", "h">> >>
  /\ relevance.pickedText = <<"E", "t", "h">>

\* ------------------------------------------------------------ C40

\* fn resolves with a value ("v1", "v2") or rejects with an error ("e1", "e2").

\* The loop with the bound i <= attempts.
fetchWithRetryOnceMore ==
  /\ retry.pc \in {"loop", "sleep"}
  /\ IF retry.pc = "sleep"
     THEN retry' = [retry EXCEPT !.pc = "loop", !.i = @ + 1]
     ELSE IF retry.i > retry.attempts
     THEN retry' = [retry EXCEPT !.pc = "thrown"]
     ELSE \E outcome \in {"v1", "v2", "e1", "e2"} :
            retry' =
              IF outcome \in {"v1", "v2"}
              THEN [retry EXCEPT !.pc = "returned", !.value = outcome,
                                 !.outcomes = Append(@, outcome)]
              ELSE [retry EXCEPT !.lastErr = outcome,
                                 !.outcomes = Append(@, outcome),
                                 !.pc = IF retry.i < retry.attempts - 1
                                        THEN "sleep" ELSE "loop",
                                 !.i = IF retry.i < retry.attempts - 1
                                       THEN @ ELSE @ + 1]
  /\ UNCHANGED <<redis, script, tableMissing, processed_channels, pending_channels,
                 discover, cachedKeywords, lastFetched, keywordLog, userStates,
                 sentLog, relevance, now, queueVars, groupVars, replyVars,
                 ghostVars, dmVars, channelSearch, proc, disc, hand>>

\* One step of fetchWithRetry(fn, attempts): the loop head with the final
\* throw of lastErr, one call of fn inside the try with the return or the
\* catch, and the 500 ms pause that precedes every attempt but the first.
fetchWithRetry ==
  /\ retry.pc \in {"loop", "sleep"}
  /\ IF retry.pc = "sleep"
     THEN retry' = [retry EXCEPT !.pc = "loop", !.i = @ + 1]
     ELSE IF retry.i >= retry.attempts
     THEN retry' = [retry EXCEPT !.pc = "thrown"]
     ELSE \E outcome \in {"v1", "v2", "e1", "e2"} :
            retry' =
              IF outcome \in {"v1", "v2"}
              THEN [retry EXCEPT !.pc = "returned", !.value = outcome,
                                 !.outcomes = Append(@, outcome)]
              ELSE [retry EXCEPT !.lastErr = outcome,
                                 !.outcomes = Append(@, outcome),
                                 !.pc = IF retry.i < retry.attempts - 1
                                        THEN "sleep" ELSE "loop",
                                 !.i = IF retry.i < retry.attempts - 1
                                       THEN @ ELSE @ + 1]
  /\ UNCHANGED <<redis, script, tableMissing, processed_channels, pending_channels,
                 discover, cachedKeywords, lastFetched, keywordLog, userStates,
                 sentLog, relevance, now, queueVars, groupVars, replyVars,
                 ghostVars, dmVars, channelSearch, proc, disc, hand>>

\* A call of fetchWithRetry with any number of attempts up to MaxAttempts; fn
\* settles every time (the callers pass axios calls with a timeout), so the
\* call keeps taking steps.
SpecFetchRetry ==
  InitHelper("retry") /\ [][fetchWithRetry]_vars /\ WF_vars(fetchWithRetry)

\* C40: fetchWithRetry calls fn at most attempts times; it returns the value
\* of the first call that succeeds and calls fn no more; when every attempt
\* fails it throws the error of the last one; and it always ends.
C40_RetryBounded ==
  /\ [](LET n == Len(retry.outcomes)
            failed(k) == retry.outcomes[k] \in {"e1", "e2"}
        IN  /\ n <= retry.attempts
            /\ \A k \in 1..(n - 1) : failed(k)
            /\ retry.pc = "returned" =>
                 /\ ~failed(n)
                 /\ retry.value = retry.outcomes[n]
            /\ retry.pc = "thrown" =>
                 /\ n = retry.attempts
                 /\ \A k \in 1..n : failed(k)
                 /\ n > 0 => retry.lastErr = retry.outcomes[n]
                 /\ n = 0 => retry.lastErr = "undefined")
  /\ [][retry.pc \in {"returned", "thrown"} => retry' = retry]_vars
  /\ <>(retry.pc \in {"returned", "thrown"})

C40_Witness ==
  /\ retry.pc = "returned"
  /\ retry.attempts = 3
  /\ retry.outcomes = <<"e1", "e2", "v1">>

\* ------------------------------------------------------------ C39

\* The lightweight DM funnel handler of keyword-helper.ts on one message.  The
\* message is trimmed and lower-cased; of the messages drawn here "/test" and
\* "Hi /TEST" then include '/test' (the first branch), and "Hi" and
\* "  HEY there" match (?:^|\s)(hello|hi|hey)(?:\s|$) without it.
LightHandleMessage ==
  /\ budget.msgs > 0
  /\ budget' = [budget EXCEPT !.msgs = @ - 1]
  /\ \E userId \in Users :
     \E userMessage \in {"/test", "Hi /TEST", "Hi", "  HEY there", "how much?"} :
       IF userMessage \in {"/test", "Hi /TEST"}
       THEN /\ sentLog' = [sentLog EXCEPT ![userId].thanks = @ + 1]
            /\ userStates' = [userStates EXCEPT ![userId] = "invited"]
       ELSE IF userMessage \in {"Hi", "  HEY there"}
       THEN /\ sentLog' = [sentLog EXCEPT ![userId].greeting = @ + 1]
            /\ userStates' = [userStates EXCEPT ![userId] = "cta_sent"]
       ELSE IF userStates[userId] = "undefined"
       THEN /\ sentLog' = [sentLog EXCEPT ![userId].cta = @ + 1]
            /\ userStates' = [userStates EXCEPT ![userId] = "cta_sent"]
       ELSE UNCHANGED <<sentLog, userStates>>
  /\ UNCHANGED <<redis, script, tableMissing, processed_channels, pending_channels,
                 discover, cachedKeywords, lastFetched, keywordLog, retry,
                 relevance, now, queueVars, groupVars, replyVars, retryLog,
                 scenarioD, dmVars, channelSearch, proc, disc, hand>>

SpecLight == InitHelper("light") /\ [][LightHandleMessage]_vars

\* C39: in the lightweight handler a user's state never regresses (once
\* 'invited' it stays 'invited'), and the generic 'Interested in
\* opportunities?' CTA is sent at most once per user.
C39_NoRegress ==
  /\ [][\A u \in Users : userStates[u] = "invited" => userStates'[u] = "invited"]_vars
  /\ [](\A u \in Users : sentLog[u].cta <= 1)

\* ------------------------------------------------------------ channel discovery
DefaultRefreshMin == 60

\* enqueueChannel without the sismember check.
enqueueChannelAlways(channel) == pending_channels \cup {channel}

\* enqueueChannel(redis, channel): pending_channels after the call.
enqueueChannel(channel) ==
  IF channel \notin processed_channels
  THEN pending_channels \cup {channel}
  ELSE pending_channels

\* getDynamicKeywords when fetchCryptoPanicNews gives data: the currency codes
\* of the news in order, or <<"<throw>">> when it throws.  The value is the
\* cache, its timestamp, the list returned, and whether the source was fetched.
getDynamicKeywords(data) ==
  LET lower == [ETH |-> "eth", SOL |-> "sol", DEFI |-> "defi"]
      RECURSIVE ArrayFromSet(_, _)
      ArrayFromSet(codes, seen) ==
        IF codes = <<>> THEN <<>>
        ELSE IF lower[Head(codes)] \in seen THEN ArrayFromSet(Tail(codes), seen)
        ELSE <<lower[Head(codes)]>>
               \o ArrayFromSet(Tail(codes), seen \cup {lower[Head(codes)]})
  IN  IF Len(cachedKeywords) > 0 /\ now - lastFetched < DefaultRefreshMin * 60000
      THEN [cached |-> cachedKeywords, last |-> lastFetched,
            keywords |-> cachedKeywords, fetched |-> FALSE, failed |-> FALSE]
      ELSE IF data = <<"<throw>">>
      THEN [cached |-> cachedKeywords, last |-> lastFetched,
            keywords |-> cachedKeywords, fetched |-> TRUE, failed |-> TRUE]
      ELSE [cached |-> ArrayFromSet(data, {}), last |-> now,
            keywords |-> ArrayFromSet(data, {}), fetched |-> TRUE, failed |-> FALSE]

\* discoverChannels(searcher, redis) up to its loop: getDynamicKeywords, then
\* the static keywords ("gas fees" and "defi" stand for the 16 of
\* RECRUITMENT_KEYWORDS) followed by the dynamic ones not among them (neither
\* list repeats a keyword, so this is Array.from(new Set([...]))).
DC_Start ==
  /\ discover.pc \in {"idle", "done", "thrown"}
  /\ budget.scrape > 0
  /\ budget' = [budget EXCEPT !.scrape = @ - 1]
  /\ \E data \in {<<"<throw>">>, <<>>, <<"ETH", "DEFI", "ETH">>, <<"SOL">>} :
       LET got == getDynamicKeywords(data)
           keywords == <<"gas fees", "defi">>
           static == {keywords[k] : k \in DOMAIN keywords}
       IN  /\ cachedKeywords' = got.cached
           /\ lastFetched' = got.last
           /\ keywordLog' =
                [calls |-> keywordLog.calls + 1, fetched |-> got.fetched,
                 failed |-> got.failed, result |-> got.keywords,
                 okAt |-> IF got.fetched /\ ~got.failed THEN now ELSE keywordLog.okAt]
           /\ discover' =
                [pc |-> "search", searched |-> <<>>, channels |-> {}, returned |-> {},
                 allKeywords |->
                   keywords \o SelectSeq(got.keywords, LAMBDA kw : kw \notin static)]
  /\ UNCHANGED <<redis, script, tableMissing, processed_channels, pending_channels,
                 userStates, sentLog, retry, relevance, now, queueVars, groupVars,
                 replyVars, retryLog, scenarioD, dmVars, channelSearch, proc, disc,
                 hand>>

\* One round of the loop of discoverChannels: searcher.searchChannels(kw), which
\* returns handles or throws (the throw leaves discoverChannels), then
\* enqueueChannel for each handle returned; after the last keyword the return.
DC_Search ==
  /\ discover.pc = "search"
  /\ IF Len(discover.searched) = Len(discover.allKeywords)
     THEN /\ discover' = [discover EXCEPT !.pc = "done"]
          /\ UNCHANGED pending_channels
     ELSE LET kw == discover.allKeywords[Len(discover.searched) + 1] IN
          \E throws \in BOOLEAN, channels \in SUBSET Handles :
            IF throws
            THEN /\ channels = {}
                 /\ discover' = [discover EXCEPT !.pc = "thrown",
                                                 !.searched = Append(@, kw),
                                                 !.channels = {}]
                 /\ UNCHANGED pending_channels
            ELSE /\ discover' = [discover EXCEPT !.searched = Append(@, kw),
                                                 !.channels = channels,
                                                 !.returned = @ \cup channels]
                 /\ pending_channels' =
                      pending_channels \cup UNION {enqueueChannel(c) : c \in channels}
  /\ UNCHANGED <<redis, script, tableMissing, processed_channels, cachedKeywords,
                 lastFetched, keywordLog, userStates, sentLog, retry, relevance,
                 now, queueVars, groupVars, replyVars, ghostVars, dmVars,
                 channelSearch, proc, disc, hand>>

\* Runs of discoverChannels, one after the other, while the clock moves by
\* seconds and by more than the refresh window.
SpecChannels ==
  InitHelper("processed_channels") /\ [][DC_Start \/ DC_Search \/ Tick \/ Hour]_vars

\* C33: enqueueChannel adds the channel to pending_channels exactly when it is
\* not in processed_channels at the call; for a processed channel
\* pending_channels stays as it is, and processed_channels is never modified.
C33_EnqueueUnlessProcessed ==
  [][(discover.pc = "search" /\ discover'.searched # discover.searched)
       => /\ \A c \in Handles :
               c \in pending_channels' <=>
                 \/ c \in pending_channels
                 \/ c \in discover'.channels /\ c \notin processed_channels
          /\ processed_channels' = processed_channels]_vars

C33_Witness ==
  /\ discover.channels = {"alpha", "beta"}
  /\ processed_channels = {"alpha"}
  /\ pending_channels = {"beta"}

\* C34: a run of discoverChannels that ends has searched exactly the static
\* keywords, each once and in their order, and every handle a search returned
\* is in pending_channels unless it was processed.
C34_SearchesStaticList ==
  discover.pc = "done" =>
    /\ discover.searched = <<"gas fees", "defi">>
    /\ discover.returned \subseteq pending_channels \cup processed_channels

\* C31: a search that throws for one keyword does not end discovery: a run
\* that is over has queried every keyword of its list.
C31_ThrowDoesNotAbort ==
  discover.pc \in {"done", "thrown"} => discover.searched = discover.allKeywords

\* C32: a call of getDynamicKeywords less than the refresh window after the
\* last fetch that succeeded returns the cache without fetching; a call after
\* the window fetches; a fetch that fails returns the cache and leaves the
\* cache and its timestamp as they were.
C32_OncePerWindow ==
  [][keywordLog'.calls # keywordLog.calls =>
       LET window == DefaultRefreshMin * 60000
           fresh == keywordLog.okAt >= 0 /\ now - keywordLog.okAt < window
       IN  /\ fresh => ~keywordLog'.fetched /\ keywordLog'.result = cachedKeywords
           /\ ~fresh => keywordLog'.fetched
           /\ keywordLog'.failed =>
                /\ keywordLog'.result = cachedKeywords
                /\ UNCHANGED <<cachedKeywords, lastFetched>>]_vars

====
